---- MODULE Spec2Model ----
(***************************************************************************)
(* Model of the crawl coordination core of core/src/crawler/crawl_db.rs:   *)
(* the persisted identity table (IdTable), the streaming weighted sampler  *)
(* (weighted_sample), the redirect store (RedirectDb) and the crawl        *)
(* database (CrawlDb).                                                     *)
(*                                                                         *)
(* Seven specifications share the module:                                  *)
(*   SpecId        an IdTable on one path: open / id / bulk_ids / value    *)
(*   SpecCache     SpecId for every cache capacity 1..MaxCap               *)
(*   SpecFail      SpecId with store writes that may fail                  *)
(*   SpecSample    one run of weighted_sample, one loop iteration per step *)
(*   Spec          one opened CrawlDb driven by its public operations      *)
(*   SpecRound     one CrawlDb over crawl rounds, one URL per call         *)
(*   SpecRedirect  one opened RedirectDb and its put and get calls         *)
(***************************************************************************)
EXTENDS Integers, Sequences, FiniteSets, TLC

VARIABLES
    tbl,            \* SpecId, SpecCache, SpecFail: the IdTable under test
    given,          \* SpecId: history, the <<value, id>> pairs handed out by id / bulk_ids
    call,           \* SpecId: history, the last call and its result
    ws_items,       \* SpecSample: the input (item, weight) sequence
    num_items,      \* SpecSample: the requested sample size
    ws_pos,         \* SpecSample: number of input items consumed by the loop
    sampled_items,  \* SpecSample: the heap of SampledItem
    ws_out,         \* SpecSample: Some(the returned Vec), None while the loop runs
    priorities,     \* SpecSample: history, the priority drawn for each item consumed
    url_ids,        \* Spec: CrawlDb.url_ids
    domain_ids,     \* Spec: CrawlDb.domain_ids
    redirects,      \* Spec: CrawlDb.redirects
    domain_state,   \* Spec: CrawlDb.domain_state
    urls,           \* Spec: CrawlDb.urls
    last,           \* Spec: history, the last operation, its arguments and result
    handed,         \* Spec: history, the DomainIds sample_domains returned and
                    \*       set_domain_status has not made Pending since
    nops,           \* Spec: number of operations performed so far
    puts,           \* SpecRedirect: history, the (from, to) pairs put so far
    track           \* SpecRound: history, what became of each URL since a Job held it

idvars == <<tbl, given, call>>
wsvars == <<ws_items, num_items, ws_pos, sampled_items, ws_out, priorities>>
dbvars == <<url_ids, domain_ids, redirects, domain_state, urls, last, handed, nops, puts, track>>
vars == <<tbl, given, call, ws_items, num_items, ws_pos, sampled_items, ws_out, priorities,
          url_ids, domain_ids, redirects, domain_state, urls, last, handed, nops, puts, track>>

----------------------------------------------------------------------------
(* Generic helpers *)

\* Option<T>
None == <<>>
Some(x) == <<x>>
Unwrap(o) == o[1]

Min(a, b) == IF a < b THEN a ELSE b

Range(s) == {s[i] : i \in 1..Len(s)}

\* all sequences over S of length 0..n
SeqUpTo(S, n) == UNION {[1..m -> S] : m \in 0..n}

EmptyMap == <<>>

\* m with key k bound to v (insert or overwrite)
MapPut(m, k, v) == [x \in (DOMAIN m) \cup {k} |-> IF x = k THEN v ELSE m[x]]

MapGet(m, k) == IF k \in DOMAIN m THEN Some(m[k]) ELSE None

----------------------------------------------------------------------------
(* Bounds *)

\* capacity of each LRU cache of an IdTable (500_000 in IdTable::open, scaled
\* down so that entries are evicted)
CacheCap == 1
\* longest batch given to bulk_ids in SpecId
MaxBatch == 3

\* the values of type T stored in the table under test
Values == {"a", "b", "c"}

----------------------------------------------------------------------------
(* bincode: a value and its bytes; serialization is injective and           *)
(* deserialization inverts it                                               *)

serialize(x) == <<"bytes", x>>
deserialize(b) == b[2]

----------------------------------------------------------------------------
(* lru::LruCache: a sequence of entries, most recently used first *)

CacheHas(c, k) == \E i \in 1..Len(c) : c[i].key = k

CachePeek(c, k) == (CHOOSE i \in 1..Len(c) : c[i].key = k)

\* the entries of c without the one for k
CacheWithout(c, k) == SelectSeq(c, LAMBDA e : e.key # k)

\* LruCache::get: the value (None on a miss) and the cache with k promoted
LruGet(c, k) ==
    IF CacheHas(c, k)
    THEN [val |-> Some(c[CachePeek(c, k)].val),
          cache |-> <<c[CachePeek(c, k)]>> \o CacheWithout(c, k)]
    ELSE [val |-> None, cache |-> c]

\* LruCache::put: k becomes the most recently used entry, the least recently
\* used one is dropped when the capacity is exceeded
LruPut(c, k, v, cap) ==
    LET c1 == <<[key |-> k, val |-> v]>> \o CacheWithout(c, k)
    IN  IF Len(c1) > cap THEN SubSeq(c1, 1, cap) ELSE c1

----------------------------------------------------------------------------
(* IdTable<T> *)

\* an open that starts counting at 1
IdTableOpenFromOne(cap) ==
    [t2id |-> EmptyMap, id2t |-> EmptyMap, next_id |-> 1,
     t2id_cache |-> <<>>, id2t_cache |-> <<>>, cap |-> cap]

\* IdTable::open: both stores destroyed and reopened empty, next_id 0,
\* two empty caches of the given capacity
IdTableOpen(cap) ==
    [t2id |-> EmptyMap, id2t |-> EmptyMap, next_id |-> 0,
     t2id_cache |-> <<>>, id2t_cache |-> <<>>, cap |-> cap]

\* a destroy that leaves the store as it is
DestroyNothing(store) == store

\* rocksdb::DB::destroy followed by DB::open with create_if_missing: whatever
\* the store held, an empty store
Destroy(store) == EmptyMap

\* IdTable::open on a path where an earlier table left the stores dir.t2id
\* and dir.id2t
IdTableOpenAt(dir, cap) ==
    [t2id |-> Destroy(dir.t2id), id2t |-> Destroy(dir.id2t), next_id |-> 0,
     t2id_cache |-> <<>>, id2t_cache |-> <<>>, cap |-> cap]

\* IdTable::id without the lookup in the persisted t2id store: an item that
\* fell out of the cache is given a fresh id
IdTableIdCacheOnly(t, item) ==
    LET hit == LruGet(t.t2id_cache, item)
        id == t.next_id
    IN  IF hit.val # None
        THEN [t |-> [t EXCEPT !.t2id_cache = hit.cache], ret |-> Unwrap(hit.val)]
        ELSE [t |-> [t EXCEPT
                       !.next_id = id + 1,
                       !.t2id = MapPut(@, serialize(item), serialize(id)),
                       !.id2t = MapPut(@, serialize(id), serialize(item)),
                       !.t2id_cache = LruPut(@, item, id, t.cap),
                       !.id2t_cache = LruPut(@, id, item, t.cap)],
              ret |-> id]

\* IdTable::id; the result is the table after the call and the returned id
IdTableId(t, item) ==
    LET hit == LruGet(t.t2id_cache, item)
        item_bytes == serialize(item)
        stored == MapGet(t.t2id, item_bytes)
    IN  IF hit.val # None
        THEN [t |-> [t EXCEPT !.t2id_cache = hit.cache], ret |-> Unwrap(hit.val)]
        ELSE IF stored # None
        THEN LET id == deserialize(Unwrap(stored))
             IN  [t |-> [t EXCEPT
                           !.t2id_cache = LruPut(@, item, id, t.cap),
                           !.id2t_cache = LruPut(@, id, item, t.cap)],
                  ret |-> id]
        ELSE LET id == t.next_id
                 id_bytes == serialize(id)
             IN  [t |-> [t EXCEPT
                           !.next_id = id + 1,
                           !.t2id = MapPut(@, item_bytes, id_bytes),
                           !.id2t = MapPut(@, id_bytes, item_bytes),
                           !.t2id_cache = LruPut(@, item, id, t.cap),
                           !.id2t_cache = LruPut(@, id, item, t.cap)],
                  ret |-> id]

\* a value that answers from id2t_cache only
IdTableValueCacheOnly(t, id) ==
    LET hit == LruGet(t.id2t_cache, id)
    IN  IF hit.val # None
        THEN [t |-> [t EXCEPT !.id2t_cache = hit.cache], ret |-> hit.val]
        ELSE [t |-> t, ret |-> None]

\* a value that uses up an id when the lookup misses
IdTableValueMissCounts(t, id) ==
    LET hit == LruGet(t.id2t_cache, id)
        stored == MapGet(t.id2t, serialize(id))
    IN  IF hit.val # None
        THEN [t |-> [t EXCEPT !.id2t_cache = hit.cache], ret |-> hit.val]
        ELSE IF stored # None
        THEN LET value == deserialize(Unwrap(stored))
             IN  [t |-> [t EXCEPT
                           !.t2id_cache = LruPut(@, value, id, t.cap),
                           !.id2t_cache = LruPut(@, id, value, t.cap)],
                  ret |-> Some(value)]
        ELSE [t |-> [t EXCEPT !.next_id = @ + 1], ret |-> None]

\* IdTable::value; ret is Some(value) or None
IdTableValue(t, id) ==
    LET hit == LruGet(t.id2t_cache, id)
        stored == MapGet(t.id2t, serialize(id))
    IN  IF hit.val # None
        THEN [t |-> [t EXCEPT !.id2t_cache = hit.cache], ret |-> hit.val]
        ELSE IF stored # None
        THEN LET value == deserialize(Unwrap(stored))
             IN  [t |-> [t EXCEPT
                           !.t2id_cache = LruPut(@, value, id, t.cap),
                           !.id2t_cache = LruPut(@, id, value, t.cap)],
                  ret |-> Some(value)]
        ELSE [t |-> t, ret |-> None]

\* rocksdb::WriteBatch applied to a store: the puts in the order they were added
RECURSIVE WriteBatch(_, _)
WriteBatch(store, batch) ==
    IF batch = <<>> THEN store
    ELSE WriteBatch(MapPut(store, batch[1][1], batch[1][2]), Tail(batch))

\* bulk_ids without batch_assignments: nothing is remembered within the batch
BatchAssignedNever(batch_assignments, item) == None

\* the id bulk_ids gives an item that is neither cached nor stored: the one
\* already assigned in this batch (batch_assignments.get(item)), else next_id
BatchAssigned(batch_assignments, item) == MapGet(batch_assignments, item)

\* one iteration of the loop of IdTable::bulk_ids over the loop state
\* s = [t, ids, batch_id2t, batch_t2id, batch_assignments]
BulkIdsStep(s, item) ==
    LET t == s.t
        hit == LruGet(t.t2id_cache, item)
        item_bytes == serialize(item)
        stored == MapGet(t.t2id, item_bytes)
    IN  IF hit.val # None
        THEN [s EXCEPT !.t.t2id_cache = hit.cache,
                       !.ids = Append(@, Unwrap(hit.val))]
        ELSE IF stored # None
        THEN LET id == deserialize(Unwrap(stored))
             IN  [s EXCEPT !.t.t2id_cache = LruPut(@, item, id, t.cap),
                           !.ids = Append(@, id)]
        ELSE LET assigned_id == BatchAssigned(s.batch_assignments, item)
                 id == IF assigned_id # None THEN Unwrap(assigned_id) ELSE t.next_id
                 id_bytes == serialize(id)
             IN  [s EXCEPT
                    !.t.next_id = IF assigned_id = None THEN @ + 1 ELSE @,
                    !.batch_t2id = Append(@, <<item_bytes, id_bytes>>),
                    !.batch_id2t = Append(@, <<id_bytes, item_bytes>>),
                    !.batch_assignments =
                        IF assigned_id = None THEN MapPut(@, item, id) ELSE @,
                    !.t.t2id_cache = LruPut(@, item, id, t.cap),
                    !.ids = Append(@, id)]

RECURSIVE BulkIdsLoop(_, _)
BulkIdsLoop(s, items) ==
    IF items = <<>> THEN s
    ELSE BulkIdsLoop(BulkIdsStep(s, Head(items)), Tail(items))

\* IdTable::bulk_ids that never writes the backward batch
IdTableBulkIdsNoBackward(t, items) ==
    LET s == BulkIdsLoop([t |-> t, ids |-> <<>>, batch_id2t |-> <<>>,
                          batch_t2id |-> <<>>, batch_assignments |-> EmptyMap],
                         items)
    IN  [t |-> [s.t EXCEPT !.t2id = WriteBatch(@, s.batch_t2id)],
         ret |-> s.ids]

\* IdTable::bulk_ids that writes neither batch: new ids live in the cache only
IdTableBulkIdsUnwritten(t, items) ==
    LET s == BulkIdsLoop([t |-> t, ids |-> <<>>, batch_id2t |-> <<>>,
                          batch_t2id |-> <<>>, batch_assignments |-> EmptyMap],
                         items)
    IN  [t |-> s.t, ret |-> s.ids]

\* IdTable::bulk_ids: the loop, then the two batches written (id2t first);
\* the result is the table after the call and the returned Vec of ids
IdTableBulkIds(t, items) ==
    LET s == BulkIdsLoop([t |-> t, ids |-> <<>>, batch_id2t |-> <<>>,
                          batch_t2id |-> <<>>, batch_assignments |-> EmptyMap],
                         items)
    IN  [t |-> [s.t EXCEPT !.id2t = WriteBatch(@, s.batch_id2t),
                           !.t2id = WriteBatch(@, s.batch_t2id)],
         ret |-> s.ids]

----------------------------------------------------------------------------
(* SpecId: one IdTable at a time on one path, and any sequence of calls *)

NoCall == [op |-> "open", arg |-> <<>>, ret |-> <<>>]

\* the ids a caller may pass to value: every assignable id and one beyond
AskedIds == 0..Cardinality(Values)

IdleSample ==
    /\ ws_items = <<>> /\ num_items = 0 /\ ws_pos = 0
    /\ sampled_items = <<>> /\ ws_out = None /\ priorities = <<>>

IdleDb ==
    /\ url_ids = <<>> /\ domain_ids = <<>> /\ redirects = <<>>
    /\ domain_state = <<>> /\ urls = <<>> /\ last = <<>> /\ handed = {} /\ nops = 0
    /\ puts = <<>>
    /\ track = <<>>

IdleTable == tbl = <<>> /\ given = {} /\ call = <<>>

IdInit ==
    /\ tbl = IdTableOpen(CacheCap)
    /\ given = {}
    /\ call = NoCall
    /\ IdleSample
    /\ IdleDb

CallId(item) ==
    LET r == IdTableId(tbl, item)
    IN  /\ tbl' = r.t
        /\ given' = given \cup {<<item, r.ret>>}
        /\ call' = [op |-> "id", arg |-> item, ret |-> r.ret]

CallBulkIds(items) ==
    LET r == IdTableBulkIds(tbl, items)
    IN  /\ tbl' = r.t
        /\ given' = given \cup {<<items[i], r.ret[i]>> : i \in 1..Len(items)}
        /\ call' = [op |-> "bulk_ids", arg |-> items, ret |-> r.ret]

CallValue(id) ==
    LET r == IdTableValue(tbl, id)
    IN  /\ tbl' = r.t
        /\ given' = given
        /\ call' = [op |-> "value", arg |-> id, ret |-> r.ret]

\* the table is dropped and a new one opened on the same path; the call
\* records what the path held
CallOpen ==
    LET dir == [t2id |-> tbl.t2id, id2t |-> tbl.id2t]
    IN  /\ tbl' = IdTableOpenAt(dir, tbl.cap)
        /\ given' = {}
        /\ call' = [op |-> "reopen", arg |-> dir, ret |-> <<>>]

IdNext ==
    \/ CallOpen /\ UNCHANGED <<wsvars, dbvars>>
    \/ \E item \in Values : CallId(item) /\ UNCHANGED <<wsvars, dbvars>>
    \/ \E items \in SeqUpTo(Values, MaxBatch) : CallBulkIds(items) /\ UNCHANGED <<wsvars, dbvars>>
    \/ \E id \in AskedIds : CallValue(id) /\ UNCHANGED <<wsvars, dbvars>>

SpecId == IdInit /\ [][IdNext]_vars

\* the values that were handed an id by some id or bulk_ids call so far
Known == {p[1] : p \in given}

\* C1: every lookup of a value returns the id every earlier lookup of that
\* value returned, and two different values never receive the same id: over
\* all <<value, id>> pairs handed out so far, equal values go with equal ids
\* and different values with different ids.
C1_SameIdPerValue ==
    \A p \in given : \A q \in given : (p[1] = q[1]) <=> (p[2] = q[2])

\* C1 witness: every value has an id, and the last id call looked up a value
\* whose id was assigned earlier and that is no longer where the cache had it
C1_Witness ==
    /\ call.op = "id"
    /\ Known = Values
    /\ call.ret < tbl.next_id - 1
    /\ tbl.next_id = Cardinality(Values)

\* C2: bulk_ids returns one id per item, in input order (ids[i] is the id
\* stored for items[i]); equal items of the batch get equal ids; and next_id
\* grows by the number of distinct items of the batch that had no id before.
C2_BulkIdsAllocation ==
    [][call'.op = "bulk_ids" =>
        LET items == call'.arg
            ids == call'.ret
        IN  /\ Len(ids) = Len(items)
            /\ \A i \in 1..Len(items) :
                  MapGet(tbl'.t2id, serialize(items[i])) = Some(serialize(ids[i]))
            /\ \A i \in 1..Len(items) : \A j \in 1..Len(items) :
                  items[i] = items[j] => ids[i] = ids[j]
            /\ tbl'.next_id - tbl.next_id =
                  Cardinality({x \in Range(items) : x \notin Known})]_vars

\* C2 witness: bulk_ids([a, b, a]) on an empty table returned [0, 1, 0] and
\* allocated two ids, the first a having left the cache before the second
C2_Witness ==
    /\ call.op = "bulk_ids"
    /\ call.arg = <<"a", "b", "a">>
    /\ call.ret = <<0, 1, 0>>
    /\ tbl.next_id = 2
    /\ given = {<<"a", 0>>, <<"b", 1>>}

\* C3: value(i) returns Some(x) for every value x that an id or bulk_ids call
\* gave the id i, whatever happened in between and whatever the caches hold.
C3_RoundTrip ==
    call.op = "value" =>
        \A p \in given : p[2] = call.arg => call.ret = Some(p[1])

\* C3 witness: value(i) answered for an id that bulk_ids assigned (so it was
\* never put in id2t_cache by the assignment) after all values were assigned
C3_Witness ==
    /\ call.op = "value"
    /\ call.ret # None
    /\ Known = Values
    /\ <<Unwrap(call.ret), call.arg>> \in given

\* the ids that were handed out by some id or bulk_ids call so far
GivenIds == {p[2] : p \in given}

\* C17: the ids handed out since the table was opened are exactly 0..n-1,
\* where n is the number of distinct values given to id and bulk_ids, and
\* next_id is n.
C17_DenseIds ==
    /\ GivenIds = 0..(Cardinality(Known) - 1)
    /\ tbl.next_id = Cardinality(Known)

\* C17 witness: a bulk_ids call with a repeated item completed the ids 0, 1, 2
\* of the three values
C17_Witness ==
    /\ call.op = "bulk_ids"
    /\ Len(call.arg) = 3
    /\ Cardinality(Range(call.arg)) = 2
    /\ Cardinality(Range(call.ret)) = 2
    /\ GivenIds = {0, 1, 2}
    /\ Known = Values

C21_ValueMissIsNone ==
    [][(call'.op = "value" /\ call'.arg \notin GivenIds) =>
          /\ call'.ret = None
          /\ tbl' = tbl]_vars

\* C21 witness: value was asked for the next id that would be assigned, on a
\* table that holds ids and a cached entry
C21_Witness ==
    /\ call.op = "value"
    /\ call.arg = tbl.next_id
    /\ call.ret = None
    /\ tbl.next_id = 2
    /\ tbl.id2t_cache # <<>>

----------------------------------------------------------------------------
(* SpecCache: SpecId for every cache capacity from 1 to MaxCap *)

\* largest capacity of the two LRU caches in SpecCache
MaxCap == 3

CacheInit ==
    /\ \E cap \in 1..MaxCap : tbl = IdTableOpen(cap)
    /\ given = {}
    /\ call = NoCall
    /\ IdleSample
    /\ IdleDb

SpecCache == CacheInit /\ [][IdNext]_vars

\* what a table reading only the persisted stores of t answers
StoreId(t, x) ==
    IF serialize(x) \in DOMAIN t.t2id THEN Some(deserialize(t.t2id[serialize(x)])) ELSE None

StoreValue(t, i) ==
    IF serialize(i) \in DOMAIN t.id2t THEN Some(deserialize(t.id2t[serialize(i)])) ELSE None

\* the number of distinct items without stored id that come before the first
\* occurrence of items[i] in a batch
NewBefore(t, items, i) ==
    LET first == CHOOSE j \in 1..i : items[j] = items[i] /\ \A l \in 1..(j - 1) : items[l] # items[i]
    IN  Cardinality({items[j] : j \in {l \in 1..(first - 1) : StoreId(t, items[l]) = None}})

\* C24: whatever the cache capacity, every id, bulk_ids and value call returns
\* what the persisted stores, read before the call, determine (the stored id
\* or value, else the next ids in order of first appearance, else None); and
\* every entry of t2id_cache and id2t_cache is a <<value, id>> pair that was
\* assigned.
C24_CachesTransparent ==
    /\ [](/\ \A e \in Range(tbl.t2id_cache) : <<e.key, e.val>> \in given
          /\ \A e \in Range(tbl.id2t_cache) : <<e.val, e.key>> \in given)
    /\ [][/\ call'.op = "id" =>
                call'.ret = IF StoreId(tbl, call'.arg) # None
                            THEN Unwrap(StoreId(tbl, call'.arg))
                            ELSE tbl.next_id
          /\ call'.op = "value" => call'.ret = StoreValue(tbl, call'.arg)
          /\ call'.op = "bulk_ids" =>
                /\ Len(call'.ret) = Len(call'.arg)
                /\ \A i \in 1..Len(call'.arg) :
                      call'.ret[i] =
                          IF StoreId(tbl, call'.arg[i]) # None
                          THEN Unwrap(StoreId(tbl, call'.arg[i]))
                          ELSE tbl.next_id + NewBefore(tbl, call'.arg, i)]_vars

\* C24 witness: with capacity 2, bulk_ids of three distinct values returned
\* 0, 1, 2 and the cache holds the last two of them
C24_Witness ==
    /\ tbl.cap = 2
    /\ call.op = "bulk_ids"
    /\ call.arg = <<"a", "b", "c">>
    /\ call.ret = <<0, 1, 2>>
    /\ Len(tbl.t2id_cache) = 2

----------------------------------------------------------------------------
(* weighted_sample *)

\* largest weight of an item, a URL or a domain
MaxWeight == 2
\* most items given to weighted_sample in SpecSample
MaxItems == 3
\* largest sample size requested in SpecSample
MaxK == 4
\* the random part -ln(|U| + EPSILON) of a priority, U uniform in [0, 1), takes
\* one of the values 0..MaxDraw
MaxDraw == 2

Weights == 0..MaxWeight
Draws == 0..MaxDraw

\* a priority without the offset: draw / weight, which no priority is below
\* when the weight is 0
PriorityNoOffset(draw, weight) == [num |-> draw, den |-> weight]

\* priority = draw / (weight + 1), kept as a fraction with a positive denominator
Priority(draw, weight) == [num |-> draw, den |-> weight + 1]

\* p < q on priorities
PrioLess(p, q) == p.num * q.den < q.num * p.den

\* a peek that yields a least element of the heap
HeapPeekLeast(heap) ==
    {m \in 1..Len(heap) :
        \A j \in 1..Len(heap) : ~PrioLess(heap[j].priority, heap[m].priority)}

\* BinaryHeap::peek_mut: the positions in the heap's Vec that may be its
\* greatest element under SampledItem::cmp (any of the entries that compare
\* Equal to the maximum, as the heap's internal order decides)
HeapPeek(heap) ==
    {m \in 1..Len(heap) :
        \A j \in 1..Len(heap) : ~PrioLess(heap[m].priority, heap[j].priority)}

\* the replacement test of the loop once the heap is full
Replaces(priority, max) == PrioLess(priority, max.priority)

\* the loop pushing every item, full heap or not
SampleStepPushAlways(heap, item, priority, k) ==
    {Append(heap, [item |-> item, priority |-> priority])}

\* one iteration of the loop of weighted_sample: the heaps it may leave
SampleStep(heap, item, priority, k) ==
    IF Len(heap) < k
    THEN {Append(heap, [item |-> item, priority |-> priority])}
    ELSE IF heap = <<>>
    THEN {heap}
    ELSE {IF Replaces(priority, heap[m])
          THEN [heap EXCEPT ![m] = [item |-> item, priority |-> priority]]
          ELSE heap : m \in HeapPeek(heap)}

\* sampled_items.into_iter().map(|s| s.item).collect()
HeapItems(heap) == [i \in 1..Len(heap) |-> heap[i].item]

\* the whole loop over items = <<item, weight>> pairs, for every outcome of
\* the random draws: the heaps it may end with
RECURSIVE SampleLoop(_, _, _)
SampleLoop(items, k, heaps) ==
    IF items = <<>> THEN heaps
    ELSE SampleLoop(Tail(items), k,
            UNION {SampleStep(h, Head(items)[1], Priority(r, Head(items)[2]), k) :
                     h \in heaps, r \in Draws})

\* weighted_sample(items, num_items): the Vecs it may return
weighted_sample(items, k) == {HeapItems(h) : h \in SampleLoop(items, k, {<<>>})}

----------------------------------------------------------------------------
(* SpecSample: one call of weighted_sample; the items are their input        *)
(* positions, so ws_items[i] = <<i, weight of item i>>                       *)

SampleInit ==
    /\ \E n \in 0..MaxItems : \E w \in [1..n -> Weights] :
          ws_items = [i \in 1..n |-> <<i, w[i]>>]
    /\ num_items \in 0..MaxK
    /\ ws_pos = 0
    /\ sampled_items = <<>>
    /\ ws_out = None
    /\ priorities = <<>>
    /\ IdleTable
    /\ IdleDb

\* one iteration of `for (item, weight) in items`
WsIterate ==
    /\ ws_out = None
    /\ ws_pos < Len(ws_items)
    /\ \E r \in Draws :
          /\ sampled_items' \in SampleStep(sampled_items, ws_items[ws_pos + 1][1],
                                            Priority(r, ws_items[ws_pos + 1][2]),
                                            num_items)
          /\ priorities' = Append(priorities, Priority(r, ws_items[ws_pos + 1][2]))
    /\ ws_pos' = ws_pos + 1
    /\ UNCHANGED <<ws_items, num_items, ws_out>>

\* the loop is over: the heap's items are collected and returned
WsReturn ==
    /\ ws_out = None
    /\ ws_pos = Len(ws_items)
    /\ ws_out' = Some(HeapItems(sampled_items))
    /\ UNCHANGED <<ws_items, num_items, ws_pos, sampled_items, priorities>>

SampleNext ==
    \/ WsIterate /\ UNCHANGED <<idvars, dbvars>>
    \/ WsReturn /\ UNCHANGED <<idvars, dbvars>>

SpecSample == SampleInit /\ [][SampleNext]_vars

\* C4: weighted_sample over n items returns min(k, n) items of the input, no
\* input position twice: none for k = 0, all for k >= n, k distinct ones
\* for 0 < k < n, whatever the draws.
C4_SampleSize ==
    ws_out # None =>
        LET out == Unwrap(ws_out)
        IN  /\ Len(out) = Min(num_items, Len(ws_items))
            /\ \A i \in 1..Len(out) : out[i] \in 1..Len(ws_items)
            /\ \A i \in 1..Len(out) : \A j \in 1..Len(out) :
                  out[i] = out[j] => i = j

\* C4 witness: a sample of 0 < k < n items in which a later item replaced one
\* of the first k
C4_Witness ==
    /\ ws_out # None
    /\ num_items = 2
    /\ Len(ws_items) = 3
    /\ 3 \in Range(Unwrap(ws_out))

\* the items consumed so far (input positions)
Consumed == 1..ws_pos

\* the priorities drawn so far differ pairwise
DistinctPriorities ==
    \A i \in Consumed : \A j \in Consumed :
        i # j => PrioLess(priorities[i], priorities[j]) \/ PrioLess(priorities[j], priorities[i])

\* the consumed items that have fewer than n consumed items of smaller priority
Smallest(n) ==
    {i \in Consumed :
        Cardinality({j \in Consumed : PrioLess(priorities[j], priorities[i])}) < n}

\* C23: the heap never holds more than k entries; an item is pushed while the
\* heap holds fewer than k; a full heap changes only by a maximum-priority
\* entry being replaced by an item of strictly smaller priority; so for
\* pairwise distinct priorities the heap holds, and the call returns, exactly
\* the min(k, n) items of smallest priority.
C23_KeepsSmallest ==
    /\ [](/\ Len(sampled_items) = Min(num_items, ws_pos)
          /\ \A e \in Range(sampled_items) :
                e.item \in Consumed /\ e.priority = priorities[e.item]
          /\ DistinctPriorities =>
                {e.item : e \in Range(sampled_items)} = Smallest(num_items)
          /\ (ws_out # None /\ DistinctPriorities) =>
                Range(Unwrap(ws_out)) = Smallest(num_items))
    /\ [][ws_pos' = ws_pos + 1 =>
            LET new == [item |-> ws_pos', priority |-> priorities'[ws_pos']]
            IN  IF Len(sampled_items) < num_items
                THEN sampled_items' = Append(sampled_items, new)
                ELSE \/ sampled_items' = sampled_items
                     \/ \E m \in 1..Len(sampled_items) :
                           /\ \A j \in 1..Len(sampled_items) :
                                 ~PrioLess(sampled_items[m].priority,
                                           sampled_items[j].priority)
                           /\ PrioLess(new.priority, sampled_items[m].priority)
                           /\ sampled_items' = [sampled_items EXCEPT ![m] = new]]_vars

\* C23 witness: of three items with the distinct priorities 1, 1/2 and 1/3, a
\* sample of two holds the second and the third
C23_Witness ==
    /\ ws_out # None
    /\ num_items = 2
    /\ Len(ws_items) = 3
    /\ DistinctPriorities
    /\ PrioLess(priorities[3], priorities[2])
    /\ PrioLess(priorities[2], priorities[1])
    /\ Range(Unwrap(ws_out)) = {2, 3}

----------------------------------------------------------------------------
(* CrawlDb: the data *)

Domains == {"A", "B"}
\* a Url is <<its domain, a path>>
Urls == {<<"A", 1>>, <<"A", 2>>, <<"B", 1>>}

\* Domain::from(&Url)
DomainOf(url) == url[1]

\* UrlStatus
UrlPending == <<"Pending">>
UrlCrawling == <<"Crawling">>
UrlDone == <<"Done">>
UrlFailed(status_code) == <<"Failed", status_code>>

\* DomainStatus
DomainPending == "Pending"
CrawlInProgress == "CrawlInProgress"
DomainStatuses == {DomainPending, CrawlInProgress}

\* Option<u16> status codes of a Failed response
StatusCodes == {None, Some(404)}

\* UrlResponse
Success(url) == [kind |-> "Success", url |-> url]
Failed(url, status_code) == [kind |-> "Failed", url |-> url, status_code |-> status_code]
Redirected(url, new_url) == [kind |-> "Redirected", url |-> url, new_url |-> new_url]

UrlResponses ==
    {Success(u) : u \in Urls}
        \cup {Failed(u, c) : u \in Urls, c \in StatusCodes}
        \cup {Redirected(u, n) : u \in Urls, n \in Urls}

\* JobResponse
JobResponse(domain, discovered_urls, url_responses) ==
    [domain |-> domain, discovered_urls |-> discovered_urls,
     url_responses |-> url_responses]

\* the state a URL or a domain is created with
NewUrlState == [weight |-> 0, status |-> UrlPending]
NewDomainState(status) == [weight |-> 0, status |-> status]

\* an entry that is stored over the one the map has
OrInsertOver(m, k, v) == MapPut(m, k, v)

\* BTreeMap::entry(k).or_insert_with(v) / or_default(), as the map it leaves
OrInsert(m, k, v) == IF k \in DOMAIN m THEN m ELSE MapPut(m, k, v)

\* the orders in which a HashMap may iterate over the key set S
IterOrders(S) == {f \in [1..Cardinality(S) -> S] : Range(f) = S}

\* the keys of a BTreeMap with natural-number keys, ascending
RECURSIVE Ascending(_)
Ascending(S) ==
    IF S = {} THEN <<>>
    ELSE LET m == CHOOSE x \in S : \A y \in S : x <= y
         IN  <<m>> \o Ascending(S \ {m})

\* s1 \o s2 \o ... for a sequence of sequences
RECURSIVE Flatten(_)
Flatten(ss) == IF ss = <<>> THEN <<>> ELSE Head(ss) \o Flatten(Tail(ss))

\* CrawlDb::open
CrawlDbOpen ==
    [url_ids |-> IdTableOpen(CacheCap),
     domain_ids |-> IdTableOpen(CacheCap),
     redirects |-> EmptyMap,
     domain_state |-> EmptyMap,
     urls |-> EmptyMap]

\* a put that stores the pair the other way round
RedirectPutReversed(inner, from, to) == MapPut(inner, serialize(to), serialize(from))

\* RedirectDb::put on the store
RedirectPut(inner, from, to) == MapPut(inner, serialize(from), serialize(to))

\* a get that follows a second redirect when the target has one
RedirectGetChained(inner, from) ==
    LET first == MapGet(inner, serialize(from))
        second == IF first = None THEN None ELSE MapGet(inner, Unwrap(first))
    IN  IF second # None THEN Some(deserialize(Unwrap(second)))
        ELSE IF first # None THEN Some(deserialize(Unwrap(first)))
        ELSE None

\* RedirectDb::get on the store
RedirectGet(inner, from) ==
    IF MapGet(inner, serialize(from)) # None
    THEN Some(deserialize(Unwrap(MapGet(inner, serialize(from)))))
    ELSE None

----------------------------------------------------------------------------
(* CrawlDb::insert_seed_urls *)

\* a seed that stores a fresh DomainState over the one the domain has
SeedDomainStateFresh(states, domain_id) ==
    MapPut(states, domain_id, NewDomainState(DomainPending))

\* what the loop body does to domain_state: entry(domain_id).or_insert_with
SeedDomainState(states, domain_id) ==
    OrInsert(states, domain_id, NewDomainState(DomainPending))

\* what the loop body stores for the seeded URL: a map insert, which
\* replaces the UrlState the URL may already have
SeedUrlState(url_states, url_id) == MapPut(url_states, url_id, NewUrlState)

\* one iteration of the loop of insert_seed_urls
SeedUrl(db, url) ==
    LET d == IdTableId(db.domain_ids, DomainOf(url))
        u == IdTableId(db.url_ids, url)
        domain_id == d.ret
        url_id == u.ret
        with_entry == OrInsert(db.urls, domain_id, EmptyMap)
    IN  [db EXCEPT
           !.domain_ids = d.t,
           !.url_ids = u.t,
           !.domain_state = SeedDomainState(@, domain_id),
           !.urls = MapPut(with_entry, domain_id,
                           SeedUrlState(with_entry[domain_id], url_id))]

RECURSIVE insert_seed_urls(_, _)
insert_seed_urls(db, seeds) ==
    IF seeds = <<>> THEN db
    ELSE insert_seed_urls(SeedUrl(db, Head(seeds)), Tail(seeds))

----------------------------------------------------------------------------
(* CrawlDb::insert_urls *)

\* every discovered URL of every response, in order, as UrlToInsert
RECURSIVE ToInsert(_)
ToInsert(responses) ==
    IF responses = <<>> THEN <<>>
    ELSE LET res == Head(responses)
         IN  [i \in 1..Len(res.discovered_urls) |->
                 [url |-> res.discovered_urls[i],
                  different_domain |-> res.domain # DomainOf(res.discovered_urls[i])]]
             \o ToInsert(Tail(responses))

\* every UrlToInsert filed under the domain of the first one
GroupByFirstDomain(inserts) ==
    [d \in {DomainOf(inserts[i].url) : i \in 1..(IF inserts = <<>> THEN 0 ELSE 1)} |->
        inserts]

\* the HashMap<Domain, Vec<UrlToInsert>> built by the first loop
GroupByDomain(inserts) ==
    [d \in {DomainOf(inserts[i].url) : i \in 1..Len(inserts)} |->
        SelectSeq(inserts, LAMBDA e : DomainOf(e.url) = d)]

\* every discovery counted, from whichever domain
DiscoveredWeightAlways(weight, different_domain) == weight + 1

\* the weight a discovered URL is left with
DiscoveredWeight(weight, different_domain) ==
    IF different_domain THEN weight + 1 ELSE weight

\* the weight the owning domain is left with
RaisedDomainWeight(domain_weight, url_weight) ==
    IF url_weight > domain_weight THEN url_weight ELSE domain_weight

\* the inner loop of insert_urls over the UrlToInsert of one domain
RECURSIVE InsertDomainUrls(_, _, _)
InsertDomainUrls(db, domain_id, to_insert) ==
    IF to_insert = <<>> THEN db
    ELSE LET url == Head(to_insert)
             u == IdTableId(db.url_ids, url.url)
             url_id == u.ret
             url_states == OrInsert(db.urls[domain_id], url_id, NewUrlState)
             weight == DiscoveredWeight(url_states[url_id].weight, url.different_domain)
         IN  InsertDomainUrls(
                [db EXCEPT
                   !.url_ids = u.t,
                   !.urls[domain_id] = [url_states EXCEPT ![url_id].weight = weight],
                   !.domain_state[domain_id].weight = RaisedDomainWeight(@, weight)],
                domain_id, Tail(to_insert))

\* the outer loop of insert_urls over (domain_id, urls) pairs
RECURSIVE InsertDomains(_, _, _)
InsertDomains(db, domain_ids_, url_lists) ==
    IF domain_ids_ = <<>> THEN db
    ELSE LET domain_id == Head(domain_ids_)
             db1 == [db EXCEPT
                       !.domain_state = OrInsert(@, domain_id, NewDomainState(DomainPending)),
                       !.urls = OrInsert(@, domain_id, EmptyMap)]
         IN  InsertDomains(InsertDomainUrls(db1, domain_id, Head(url_lists)),
                           Tail(domain_ids_), Tail(url_lists))

\* insert_urls when the HashMap iterates its keys in the given order
insert_urls(db, responses, order) ==
    LET domains == GroupByDomain(ToInsert(responses))
        url_lists == [i \in 1..Len(order) |-> domains[order[i]]]
        d == IdTableBulkIds(db.domain_ids, order)
        flat == Flatten(url_lists)
        u == IdTableBulkIds(db.url_ids, [i \in 1..Len(flat) |-> flat[i].url])
    IN  InsertDomains([db EXCEPT !.domain_ids = d.t, !.url_ids = u.t],
                      d.ret, url_lists)

----------------------------------------------------------------------------
(* CrawlDb::update_url_status *)

\* every UrlResponse of every job response, in order
RECURSIVE AllUrlResponses(_)
AllUrlResponses(job_responses) ==
    IF job_responses = <<>> THEN <<>>
    ELSE Head(job_responses).url_responses \o AllUrlResponses(Tail(job_responses))

\* the HashMap<Domain, Vec<UrlResponse>> built by the first loop
GroupResponses(rs) ==
    [d \in {DomainOf(rs[i].url) : i \in 1..Len(rs)} |->
        SelectSeq(rs, LAMBDA r : DomainOf(r.url) = d)]

\* a registration that leaves out the target of a redirect
RegisteredUrlsOwn(r) == <<r.url>>

\* the URLs one response registers in url_ids
RegisteredUrls(r) ==
    IF r.kind = "Redirected" THEN <<r.url, r.new_url>> ELSE <<r.url>>

\* the status a Success or Failed response leaves its URL with
ResponseStatus(r) ==
    IF r.kind = "Success" THEN UrlDone ELSE UrlFailed(r.status_code)

\* a Success or Failed response storing a fresh UrlState with the new status
ApplyResponseFresh(db, domain_id, r) ==
    IF r.kind = "Redirected"
    THEN [db EXCEPT !.redirects = RedirectPut(@, r.url, r.new_url)]
    ELSE LET u == IdTableId(db.url_ids, r.url)
         IN  [db EXCEPT
                !.url_ids = u.t,
                !.urls[domain_id] =
                    MapPut(@, u.ret, [NewUrlState EXCEPT !.status = ResponseStatus(r)])]

\* one iteration of the inner loop: one response of the domain domain_id
ApplyResponse(db, domain_id, r) ==
    IF r.kind = "Redirected"
    THEN [db EXCEPT !.redirects = RedirectPut(@, r.url, r.new_url)]
    ELSE LET u == IdTableId(db.url_ids, r.url)
             url_id == u.ret
             url_states == OrInsert(db.urls[domain_id], url_id, NewUrlState)
         IN  [db EXCEPT
                !.url_ids = u.t,
                !.urls[domain_id] =
                    [url_states EXCEPT ![url_id].status = ResponseStatus(r)]]

RECURSIVE ApplyResponses(_, _, _)
ApplyResponses(db, domain_id, rs) ==
    IF rs = <<>> THEN db
    ELSE ApplyResponses(ApplyResponse(db, domain_id, Head(rs)), domain_id, Tail(rs))

\* the entries made for a domain with only the map of its UrlStates
DomainEntriesUrlsOnly(db, domain_id) ==
    [db EXCEPT !.urls = OrInsert(@, domain_id, EmptyMap)]

\* the entries the outer loop makes for a domain before it applies the
\* responses: its DomainState and the map of its UrlStates
DomainEntries(db, domain_id) ==
    [db EXCEPT
       !.domain_state = OrInsert(@, domain_id, NewDomainState(DomainPending)),
       !.urls = OrInsert(@, domain_id, EmptyMap)]

\* the outer loop `for (domain, responses) in url_responses`
RECURSIVE UpdateDomains(_, _, _)
UpdateDomains(db, order, url_responses) ==
    IF order = <<>> THEN db
    ELSE LET d == IdTableId(db.domain_ids, Head(order))
             domain_id == d.ret
             db1 == DomainEntries([db EXCEPT !.domain_ids = d.t], domain_id)
         IN  UpdateDomains(ApplyResponses(db1, domain_id, url_responses[Head(order)]),
                           Tail(order), url_responses)

\* update_url_status when the HashMap iterates its keys in the given order
update_url_status(db, job_responses, order) ==
    LET url_responses == GroupResponses(AllUrlResponses(job_responses))
        flat == Flatten([i \in 1..Len(order) |-> url_responses[order[i]]])
        u == IdTableBulkIds(db.url_ids,
                            Flatten([i \in 1..Len(flat) |-> RegisteredUrls(flat[i])]))
        d == IdTableBulkIds(db.domain_ids, order)
    IN  UpdateDomains([db EXCEPT !.url_ids = u.t, !.domain_ids = d.t],
                      order, url_responses)

----------------------------------------------------------------------------
(* CrawlDb::set_domain_status *)

\* a set_domain_status that stores a fresh DomainState with the status
set_domain_status_fresh(db, domain, status) ==
    LET d == IdTableId(db.domain_ids, domain)
    IN  [db EXCEPT
           !.domain_ids = d.t,
           !.domain_state = MapPut(@, d.ret, NewDomainState(status))]

set_domain_status(db, domain, status) ==
    LET d == IdTableId(db.domain_ids, domain)
        domain_id == d.ret
        states == OrInsert(db.domain_state, domain_id, NewDomainState(status))
    IN  [db EXCEPT
           !.domain_ids = d.t,
           !.domain_state = [states EXCEPT ![domain_id].status = status]]

----------------------------------------------------------------------------
(* CrawlDb::sample_domains *)

\* the (id, weight) pairs of the entries of a state map that pass the
\* status filter, in the map's key order
WithStatus(states, status) ==
    LET ids == Ascending({id \in DOMAIN states : states[id].status = status})
    IN  [i \in 1..Len(ids) |-> <<ids[i], states[ids[i]].weight>>]

\* sample_domains offering every domain, whatever its status
SampleCandidatesAll(states) ==
    LET ids == Ascending(DOMAIN states)
    IN  [i \in 1..Len(ids) |-> <<ids[i], states[ids[i]].weight>>]

\* the domains sample_domains offers to the sampler
SampleCandidates(states) == WithStatus(states, DomainPending)

\* sample_domains that leaves the sampled domains' status as it was
sample_domains_unmarked(db, num_jobs) ==
    {[db |-> db, ret |-> sampled] :
        sampled \in weighted_sample(SampleCandidates(db.domain_state), num_jobs)}

\* sample_domains(num_jobs): the outcomes [db, ret] it may have
sample_domains(db, num_jobs) ==
    {[db |-> [db EXCEPT !.domain_state =
                 [id \in DOMAIN @ |->
                     IF id \in Range(sampled)
                     THEN [@[id] EXCEPT !.status = CrawlInProgress]
                     ELSE @[id]]],
      ret |-> sampled] :
        sampled \in weighted_sample(SampleCandidates(db.domain_state), num_jobs)}

----------------------------------------------------------------------------
(* CrawlDb::prepare_jobs *)

\* prepare_jobs offering every URL of the domain, whatever its status
JobCandidatesAll(url_states) ==
    LET ids == Ascending(DOMAIN url_states)
    IN  [i \in 1..Len(ids) |-> <<ids[i], url_states[ids[i]].weight>>]

\* prepare_jobs offering the URLs that are Pending or Crawling
JobCandidatesUnfinished(url_states) ==
    LET ids == Ascending({id \in DOMAIN url_states :
                            url_states[id].status \in {UrlPending, UrlCrawling}})
    IN  [i \in 1..Len(ids) |-> <<ids[i], url_states[ids[i]].weight>>]

\* the URLs of one domain prepare_jobs offers to the sampler
JobCandidates(url_states) == WithStatus(url_states, UrlPending)

\* the greatest of a set of weights, 0.0 for none
MaxOf(ws) == IF ws = {} THEN 0 ELSE CHOOSE w \in ws : \A v \in ws : v <= w

\* the domain weight recomputed over every URL of the domain
RemainingWeightAll(url_states) ==
    MaxOf({url_states[id].weight : id \in DOMAIN url_states})

\* the recomputed domain weight
RemainingWeight(url_states) ==
    MaxOf({url_states[id].weight :
             id \in {i \in DOMAIN url_states : url_states[i].status = UrlPending}})

\* url_ids.value(id)?.unwrap() for each sampled id, in order: the table it
\* leaves, the URLs, and whether an unwrap met None
RECURSIVE ResolveUrls(_, _)
ResolveUrls(t, ids) ==
    IF ids = <<>> THEN [t |-> t, urls |-> <<>>, panic |-> FALSE]
    ELSE LET v == IdTableValue(t, Head(ids))
         IN  IF v.ret = None
             THEN [t |-> v.t, urls |-> <<>>, panic |-> TRUE]
             ELSE LET rest == ResolveUrls(v.t, Tail(ids))
                  IN  [t |-> rest.t, urls |-> <<Unwrap(v.ret)>> \o rest.urls,
                       panic |-> rest.panic]

\* an iteration that builds a Job without URLs for a DomainId that has no
\* DomainState or no value, instead of panicking
PrepareJobLenient(db, domain_id, urls_per_job, sampled) ==
    LET entry == OrInsert(db.urls, domain_id, EmptyMap)[domain_id]
        url_states == [id \in DOMAIN entry |->
                          IF id \in Range(sampled)
                          THEN [entry[id] EXCEPT !.status = UrlCrawling]
                          ELSE entry[id]]
        db1 == [db EXCEPT !.urls = MapPut(@, domain_id, url_states)]
        d == IdTableValue(db1.domain_ids, domain_id)
        r == ResolveUrls(db1.url_ids, sampled)
    IN  IF domain_id \notin DOMAIN db.domain_state \/ d.ret = None
        THEN [db |-> db1, panic |-> FALSE,
              job |-> Some([domain |-> None, fetch_sitemap |-> FALSE, urls |-> <<>>])]
        ELSE [db |-> [db1 EXCEPT !.domain_state[domain_id].weight =
                                     RemainingWeight(url_states),
                                 !.domain_ids = d.t,
                                 !.url_ids = r.t],
              panic |-> r.panic,
              job |-> IF r.panic THEN None
                      ELSE Some([domain |-> Unwrap(d.ret),
                                 fetch_sitemap |-> FALSE,
                                 urls |-> r.urls])]

\* one iteration of the loop of prepare_jobs when the sampler returns
\* `sampled`: the database it leaves and the Job, or a panic at an unwrap
PrepareJob(db, domain_id, urls_per_job, sampled) ==
    LET entry == OrInsert(db.urls, domain_id, EmptyMap)[domain_id]
        url_states == [id \in DOMAIN entry |->
                          IF id \in Range(sampled)
                          THEN [entry[id] EXCEPT !.status = UrlCrawling]
                          ELSE entry[id]]
        db1 == [db EXCEPT !.urls = MapPut(@, domain_id, url_states)]
    IN  IF domain_id \notin DOMAIN db.domain_state
        THEN [db |-> db1, panic |-> TRUE, job |-> None]
        ELSE LET db2 == [db1 EXCEPT !.domain_state[domain_id].weight =
                                         RemainingWeight(url_states)]
                 d == IdTableValue(db2.domain_ids, domain_id)
                 db3 == [db2 EXCEPT !.domain_ids = d.t]
             IN  IF d.ret = None
                 THEN [db |-> db3, panic |-> TRUE, job |-> None]
                 ELSE LET r == ResolveUrls(db3.url_ids, sampled)
                      IN  [db |-> [db3 EXCEPT !.url_ids = r.t],
                           panic |-> r.panic,
                           job |-> IF r.panic THEN None
                                   ELSE Some([domain |-> Unwrap(d.ret),
                                              fetch_sitemap |-> FALSE,
                                              urls |-> r.urls])]

\* the outcomes of one iteration, over what the sampler may return
PrepareJobOutcomes(db, domain_id, urls_per_job) ==
    LET entry == OrInsert(db.urls, domain_id, EmptyMap)[domain_id]
    IN  {PrepareJob(db, domain_id, urls_per_job, sampled) :
            sampled \in weighted_sample(JobCandidates(entry), urls_per_job)}

\* prepare_jobs(domains, urls_per_job): the outcomes [db, ret, panic] it may
\* have; ret is the Vec of jobs built so far
RECURSIVE PrepareJobsFrom(_, _, _, _)
PrepareJobsFrom(db, domains, urls_per_job, jobs) ==
    IF domains = <<>> THEN {[db |-> db, ret |-> jobs, panic |-> FALSE]}
    ELSE UNION {IF o.panic
                THEN {[db |-> o.db, ret |-> jobs, panic |-> TRUE]}
                ELSE PrepareJobsFrom(o.db, Tail(domains), urls_per_job,
                                     Append(jobs, Unwrap(o.job))) :
                  o \in PrepareJobOutcomes(db, Head(domains), urls_per_job)}

prepare_jobs(db, domains, urls_per_job) ==
    PrepareJobsFrom(db, domains, urls_per_job, <<>>)

----------------------------------------------------------------------------
(* Spec: one CrawlDb, opened once, then any sequence of its operations *)

\* most operations performed on the CrawlDb
MaxOps == 3
\* most URLs given to one insert_seed_urls call
MaxSeeds == 2
\* most discovered URLs over the responses of one insert_urls call
MaxDiscovered == 2
\* most UrlResponses over the responses of one update_url_status call
MaxUrlResponses == 1
\* largest num_jobs given to sample_domains and urls_per_job given to prepare_jobs
MaxJobs == 2
\* most DomainIds given to one prepare_jobs call
MaxJobDomains == 2

\* the DomainIds a caller may pass to prepare_jobs: those of every domain
\* and one that no domain has
DomainIds == 0..Cardinality(Domains)

\* the responses given to insert_urls
InsertResponses ==
    {<<JobResponse(d, us, <<>>)>> :
        d \in Domains, us \in SeqUpTo(Urls, MaxDiscovered) \ {<<>>}}

\* the responses given to update_url_status
UpdateResponses ==
    {<<JobResponse(DomainOf(rs[1].url), <<>>, rs)>> :
        rs \in SeqUpTo(UrlResponses, MaxUrlResponses) \ {<<>>}}

Db == [url_ids |-> url_ids, domain_ids |-> domain_ids, redirects |-> redirects,
       domain_state |-> domain_state, urls |-> urls]

\* the operation op(arg) ran, left the database db and returned ret or
\* panicked
Becomes(db, op, arg, ret, panic, out) ==
    /\ url_ids' = db.url_ids
    /\ domain_ids' = db.domain_ids
    /\ redirects' = db.redirects
    /\ domain_state' = db.domain_state
    /\ urls' = db.urls
    /\ last' = [op |-> op, arg |-> arg, ret |-> ret, panic |-> panic]
    /\ handed' = out
    /\ nops' = nops + 1
    /\ puts' = puts

\* a panic ends the program
Running == ~last.panic

Unit == <<>>

Init ==
    /\ url_ids = CrawlDbOpen.url_ids
    /\ domain_ids = CrawlDbOpen.domain_ids
    /\ redirects = CrawlDbOpen.redirects
    /\ domain_state = CrawlDbOpen.domain_state
    /\ urls = CrawlDbOpen.urls
    /\ last = [op |-> "open", arg |-> Unit, ret |-> Unit, panic |-> FALSE]
    /\ handed = {}
    /\ nops = 0
    /\ puts = <<>>
    /\ track = <<>>
    /\ IdleTable
    /\ IdleSample

InsertSeedUrls(seeds) ==
    /\ Running
    /\ Becomes(insert_seed_urls(Db, seeds), "insert_seed_urls", seeds, Unit, FALSE,
               handed)

\* no weight is driven past MaxWeight
WeightsBounded(db) ==
    \A d \in DOMAIN db.urls : \A u \in DOMAIN db.urls[d] :
        db.urls[d][u].weight <= MaxWeight

InsertUrls(responses) ==
    /\ Running
    /\ \E order \in IterOrders(DOMAIN GroupByDomain(ToInsert(responses))) :
          LET db == insert_urls(Db, responses, order)
          IN  /\ WeightsBounded(db)
              /\ Becomes(db, "insert_urls", responses, Unit, FALSE, handed)

UpdateUrlStatus(job_responses) ==
    /\ Running
    /\ \E order \in IterOrders(DOMAIN GroupResponses(AllUrlResponses(job_responses))) :
          Becomes(update_url_status(Db, job_responses, order), "update_url_status",
                  job_responses, Unit, FALSE, handed)

SetDomainStatus(domain, status) ==
    /\ Running
    /\ Becomes(set_domain_status(Db, domain, status), "set_domain_status",
               <<domain, status>>, Unit, FALSE,
               IF status = DomainPending
               THEN handed \ {IdTableId(domain_ids, domain).ret}
               ELSE handed)

SampleDomains(num_jobs) ==
    /\ Running
    /\ \E o \in sample_domains(Db, num_jobs) :
          Becomes(o.db, "sample_domains", num_jobs, o.ret, FALSE,
                  handed \cup Range(o.ret))

PrepareJobs(domains, urls_per_job) ==
    /\ Running
    /\ \E o \in prepare_jobs(Db, domains, urls_per_job) :
          Becomes(o.db, "prepare_jobs", <<domains, urls_per_job>>, o.ret, o.panic,
                  handed)

Next ==
    \/ \E seeds \in SeqUpTo(Urls, MaxSeeds) \ {<<>>} :
          nops < MaxOps /\ InsertSeedUrls(seeds) /\ UNCHANGED <<idvars, wsvars, track>>
    \/ \E responses \in InsertResponses :
          nops < MaxOps /\ InsertUrls(responses) /\ UNCHANGED <<idvars, wsvars, track>>
    \/ \E job_responses \in UpdateResponses :
          nops < MaxOps /\ UpdateUrlStatus(job_responses) /\ UNCHANGED <<idvars, wsvars, track>>
    \/ \E domain \in Domains : \E status \in DomainStatuses :
          nops < MaxOps /\ SetDomainStatus(domain, status) /\ UNCHANGED <<idvars, wsvars, track>>
    \/ \E num_jobs \in 0..MaxJobs :
          nops < MaxOps /\ SampleDomains(num_jobs) /\ UNCHANGED <<idvars, wsvars, track>>
    \/ \E domains \in SeqUpTo(DomainIds, MaxJobDomains) : \E urls_per_job \in 0..MaxJobs :
          nops < MaxOps /\ PrepareJobs(domains, urls_per_job) /\ UNCHANGED <<idvars, wsvars, track>>

Spec == Init /\ [][Next]_vars

----------------------------------------------------------------------------
(* SpecRound: one CrawlDb over crawl rounds: seeding, job preparation,      *)
(* responses and discoveries, one URL or response per call, with what       *)
(* became of every URL since a Job held it                                  *)

\* most operations performed on the CrawlDb in SpecRound
MaxRoundOps == 4

\* the URLs held by the jobs of a prepare_jobs result
JobUrls(jobs) == UNION {Range(jobs[i].urls) : i \in 1..Len(jobs)}

\* track after prepare_jobs returned jobs: their URLs are "placed"
Placed(tr, jobs) ==
    [u \in DOMAIN tr \cup JobUrls(jobs) |-> IF u \in JobUrls(jobs) THEN "placed" ELSE tr[u]]

\* track after an operation that stores or updates state for the URLs us
Touched(tr, us) == [u \in DOMAIN tr |-> IF u \in us THEN "touched" ELSE tr[u]]

\* track after update_url_status(rs): a URL reported Success or Failed is
\* "touched"; a URL a Job held and that has only been reported Redirected
\* since is "redirected"
Responded(tr, rs) ==
    [u \in DOMAIN tr |->
        IF \E i \in 1..Len(rs) : rs[i].kind # "Redirected" /\ rs[i].url = u
        THEN "touched"
        ELSE IF tr[u] # "touched" /\ \E i \in 1..Len(rs) : rs[i].url = u
        THEN "redirected"
        ELSE tr[u]]

RoundNext ==
    \/ \E u \in Urls :
          /\ nops < MaxRoundOps
          /\ InsertSeedUrls(<<u>>)
          /\ track' = Touched(track, {u})
          /\ UNCHANGED <<idvars, wsvars>>
    \/ \E d \in Domains : \E u \in Urls :
          /\ nops < MaxRoundOps
          /\ InsertUrls(<<JobResponse(d, <<u>>, <<>>)>>)
          /\ track' = Touched(track, {u})
          /\ UNCHANGED <<idvars, wsvars>>
    \/ \E job_responses \in UpdateResponses :
          /\ nops < MaxRoundOps
          /\ UpdateUrlStatus(job_responses)
          /\ track' = Responded(track, AllUrlResponses(job_responses))
          /\ UNCHANGED <<idvars, wsvars>>
    \/ \E domains \in SeqUpTo(DomainIds, MaxJobDomains) \ {<<>>} : \E urls_per_job \in 1..MaxJobs :
          /\ nops < MaxRoundOps
          /\ PrepareJobs(domains, urls_per_job)
          /\ track' = IF last'.panic THEN track ELSE Placed(track, last'.ret)
          /\ UNCHANGED <<idvars, wsvars>>

SpecRound == Init /\ [][RoundNext]_vars

----------------------------------------------------------------------------
(* SpecRedirect: one RedirectDb, opened on an empty path, then put and get *)

\* most put calls
MaxPuts == 3

RedirectInit ==
    /\ redirects = EmptyMap
    /\ puts = <<>>
    /\ track = <<>>
    /\ last = [op |-> "open", arg |-> Unit, ret |-> Unit, panic |-> FALSE]
    /\ url_ids = <<>> /\ domain_ids = <<>> /\ domain_state = <<>> /\ urls = <<>>
    /\ handed = {} /\ nops = 0
    /\ IdleTable
    /\ IdleSample

CallPut(from, to) ==
    /\ Len(puts) < MaxPuts
    /\ redirects' = RedirectPut(redirects, from, to)
    /\ puts' = Append(puts, <<from, to>>)
    /\ last' = [op |-> "put", arg |-> <<from, to>>, ret |-> Unit, panic |-> FALSE]
    /\ UNCHANGED <<url_ids, domain_ids, domain_state, urls, handed, nops>>

CallGet(from) ==
    /\ last' = [op |-> "get", arg |-> from, ret |-> RedirectGet(redirects, from),
                panic |-> FALSE]
    /\ UNCHANGED <<redirects, puts, url_ids, domain_ids, domain_state, urls, handed, nops>>

RedirectNext ==
    \/ \E from \in Urls : \E to \in Urls :
          CallPut(from, to) /\ UNCHANGED <<idvars, wsvars, track>>
    \/ \E from \in Urls : CallGet(from) /\ UNCHANGED <<idvars, wsvars, track>>

SpecRedirect == RedirectInit /\ [][RedirectNext]_vars

----------------------------------------------------------------------------
(* What the claims speak about, read off the state of the CrawlDb *)

\* the id the table's persisted store holds for a value that has one
StoredId(t, x) == deserialize(t.t2id[serialize(x)])

HasId(t, x) == serialize(x) \in DOMAIN t.t2id

\* the UrlStates stored under a DomainId (none when the id has no entry)
UrlStatesOf(url_map, domain_id) ==
    IF domain_id \in DOMAIN url_map THEN url_map[domain_id] ELSE EmptyMap

\* the UrlState of a URL: Some(state), or None when it has none
StateOfUrl(d_ids, u_ids, url_map, url) ==
    IF /\ HasId(d_ids, DomainOf(url))
       /\ HasId(u_ids, url)
       /\ StoredId(u_ids, url) \in DOMAIN UrlStatesOf(url_map, StoredId(d_ids, DomainOf(url)))
    THEN Some(url_map[StoredId(d_ids, DomainOf(url))][StoredId(u_ids, url)])
    ELSE None

\* the DomainState of a domain: Some(state), or None when it has none
StateOfDomain(d_ids, states, domain) ==
    IF HasId(d_ids, domain) /\ StoredId(d_ids, domain) \in DOMAIN states
    THEN Some(states[StoredId(d_ids, domain)])
    ELSE None

WeightOrZero(state) == IF state = None THEN 0 ELSE Unwrap(state).weight

PendingDomains(states) == {d \in DOMAIN states : states[d].status = DomainPending}

PendingUrls(url_states) ==
    {u \in DOMAIN url_states : url_states[u].status = UrlPending}

Injective(seq) == \A i \in 1..Len(seq) : \A j \in 1..Len(seq) : seq[i] = seq[j] => i = j

\* w is the greatest weight among the Pending URLs of url_states, 0 for none
IsPendingMax(w, url_states) ==
    /\ \A u \in PendingUrls(url_states) : url_states[u].weight <= w
    /\ \/ \E u \in PendingUrls(url_states) : url_states[u].weight = w
       \/ w = 0 /\ PendingUrls(url_states) = {}

\* C5: sample_domains(count) returns min(count, number of Pending domains)
\* distinct DomainIds, all Pending before the call; exactly the returned
\* domains change status, to CrawlInProgress; no weight and no other status
\* changes, and no DomainState appears or disappears.
C5_SampleDomainsPendingOnly ==
    [][last'.op = "sample_domains" =>
              LET k == last'.arg
                  ret == last'.ret
                  pend == PendingDomains(domain_state)
              IN  /\ Len(ret) = Min(k, Cardinality(pend))
                  /\ Injective(ret)
                  /\ Range(ret) \subseteq pend
                  /\ DOMAIN domain_state' = DOMAIN domain_state
                  /\ \A d \in DOMAIN domain_state :
                        /\ domain_state'[d].weight = domain_state[d].weight
                        /\ domain_state'[d].status =
                              IF d \in Range(ret) THEN CrawlInProgress
                              ELSE domain_state[d].status]_vars

\* C5 witness: sample_domains returned one of two domains; the other one is
\* still Pending
C5_Witness ==
    /\ last.op = "sample_domains"
    /\ Len(last.ret) = 1
    /\ Cardinality(DOMAIN domain_state) = 2
    /\ Cardinality(PendingDomains(domain_state)) = 1
    /\ domain_state[last.ret[1]].status = CrawlInProgress

\* C6: sample_domains never returns a domain that an earlier sample_domains
\* call returned and set_domain_status has not made Pending since; right
\* after seeding a fresh CrawlDb with k domains, sample_domains(k) returns all
\* k; and once every domain has been handed out, it returns nothing.
C6_NoSecondHandout ==
    [][last'.op = "sample_domains" =>
          /\ Range(last'.ret) \cap handed = {}
          /\ (DOMAIN domain_state \subseteq handed) => (last'.ret = <<>>)
          /\ (/\ nops = 1
              /\ last.op = "insert_seed_urls"
              /\ last'.arg = Cardinality(DOMAIN domain_state))
                 => Range(last'.ret) = DOMAIN domain_state]_vars

\* C6 witness: two seeded domains were both handed out, and the next
\* sample_domains call returned nothing
C6_Witness ==
    /\ last.op = "sample_domains"
    /\ last.ret = <<>>
    /\ nops = 3
    /\ handed = DOMAIN domain_state
    /\ Cardinality(handed) = 2

\* the UrlIds of the URLs of a job, looked up in the url id table u_ids
JobUrlIds(u_ids, job) == {StoredId(u_ids, job.urls[j]) : j \in 1..Len(job.urls)}

\* C7: the Job prepare_jobs returns for a domain d holds min(urls_per_job,
\* Pending URLs of d when d was processed) URLs, each a Pending URL of d;
\* exactly the URLs placed in jobs change status, to Crawling; no weight
\* changes and no UrlState appears.
C7_JobsTakePendingUrls ==
    [][(last'.op = "prepare_jobs" /\ ~last'.panic) =>
              LET domains == last'.arg[1]
                  urls_per_job == last'.arg[2]
                  jobs == last'.ret
                  JobIds(i) == JobUrlIds(url_ids', jobs[i])
                  Earlier(i) == UNION {JobIds(j) : j \in {j \in 1..(i - 1) : domains[j] = domains[i]}}
                  PendingBefore(i) == PendingUrls(UrlStatesOf(urls, domains[i])) \ Earlier(i)
              IN  /\ Len(jobs) = Len(domains)
                  /\ \A i \in 1..Len(jobs) :
                        /\ Len(jobs[i].urls) = Min(urls_per_job, Cardinality(PendingBefore(i)))
                        /\ Injective(jobs[i].urls)
                        /\ JobIds(i) \subseteq PendingBefore(i)
                  /\ \A d \in DOMAIN urls' :
                        /\ DOMAIN urls'[d] = DOMAIN UrlStatesOf(urls, d)
                        /\ \A u \in DOMAIN urls'[d] :
                              /\ urls'[d][u].weight = urls[d][u].weight
                              /\ urls'[d][u].status =
                                    IF \E i \in 1..Len(jobs) : domains[i] = d /\ u \in JobIds(i)
                                    THEN UrlCrawling
                                    ELSE urls[d][u].status]_vars

\* C7 witness: a job of one URL for a domain that had two Pending URLs; the
\* other URL is still Pending
C7_Witness ==
    /\ last.op = "prepare_jobs"
    /\ ~last.panic
    /\ \E i \in 1..Len(last.ret) :
          /\ Len(last.ret[i].urls) = 1
          /\ PendingUrls(UrlStatesOf(urls, StoredId(domain_ids, last.ret[i].domain))) # {}
          /\ StateOfUrl(domain_ids, url_ids, urls, last.ret[i].urls[1]) =
                Some([weight |-> 0, status |-> UrlCrawling])

\* C8: after prepare_jobs, the weight of every domain it built a job for is
\* the greatest weight among that domain's URLs that are still Pending, and 0
\* when none is.
C8_WeightRecomputed ==
    (last.op = "prepare_jobs" /\ ~last.panic) =>
        \A i \in 1..Len(last.ret) :
            LET d == StoredId(domain_ids, last.ret[i].domain)
            IN  IsPendingMax(domain_state[d].weight, UrlStatesOf(urls, d))

\* C8 witness: prepare_jobs took one URL of a domain and left it a Pending
\* URL of weight 1, which is the domain's weight
C8_Witness ==
    /\ last.op = "prepare_jobs"
    /\ ~last.panic
    /\ \E i \in 1..Len(last.ret) :
          LET d == StoredId(domain_ids, last.ret[i].domain)
          IN  /\ Len(last.ret[i].urls) = 1
              /\ domain_state[d].weight = 1
              /\ \E u \in PendingUrls(urls[d]) : urls[d][u].weight = 1

\* C9: right after insert_urls and right after update_url_status every
\* domain's weight, and right after prepare_jobs the weight of every domain
\* it was given, is the greatest weight among the domain's Pending URLs, 0 for
\* none.
C9_WeightIsPendingMax ==
    /\ last.op \in {"insert_urls", "update_url_status"} =>
          \A d \in DOMAIN domain_state :
              IsPendingMax(domain_state[d].weight, UrlStatesOf(urls, d))
    /\ (last.op = "prepare_jobs" /\ ~last.panic) =>
          \A i \in 1..Len(last.ret) :
              IsPendingMax(domain_state[StoredId(domain_ids, last.ret[i].domain)].weight,
                           UrlStatesOf(urls, StoredId(domain_ids, last.ret[i].domain)))

\* the occurrences of url in the discovered_urls of responses of other domains
CrossDomainOccurrences(responses, url) ==
    {<<i, j>> \in (1..Len(responses)) \X (1..MaxDiscovered) :
        /\ j <= Len(responses[i].discovered_urls)
        /\ responses[i].discovered_urls[j] = url
        /\ responses[i].domain # DomainOf(url)}

DiscoveredUrls(responses) ==
    UNION {Range(responses[i].discovered_urls) : i \in 1..Len(responses)}

\* C10: insert_urls leaves every discovered URL with its previous weight (0
\* for a new URL) plus 1 for each occurrence reported by another domain, and
\* every domain owning a discovered URL with the greatest of its previous
\* weight (0 for a new domain) and the new weights of its discovered URLs.
C10_CrossDomainWeight ==
    [][last'.op = "insert_urls" =>
              LET responses == last'.arg
                  NewWeight(u) ==
                      WeightOrZero(StateOfUrl(domain_ids', url_ids', urls', u))
              IN  /\ \A u \in DiscoveredUrls(responses) :
                        /\ StateOfUrl(domain_ids', url_ids', urls', u) # None
                        /\ NewWeight(u) =
                              WeightOrZero(StateOfUrl(domain_ids, url_ids, urls, u))
                                  + Cardinality(CrossDomainOccurrences(responses, u))
                  /\ \A d \in {DomainOf(u) : u \in DiscoveredUrls(responses)} :
                        /\ StateOfDomain(domain_ids', domain_state', d) # None
                        /\ WeightOrZero(StateOfDomain(domain_ids', domain_state', d)) =
                              MaxOf({WeightOrZero(StateOfDomain(domain_ids, domain_state, d))}
                                    \cup {NewWeight(u) :
                                            u \in {v \in DiscoveredUrls(responses) :
                                                     DomainOf(v) = d}})]_vars

\* C10 witness: the first call discovered B1 from domain A, which also
\* reported its own A1: B1 and domain B have weight 1, A1 and domain A weight 0
C10_Witness ==
    /\ last.op = "insert_urls"
    /\ nops = 1
    /\ WeightOrZero(StateOfUrl(domain_ids, url_ids, urls, <<"B", 1>>)) = 1
    /\ WeightOrZero(StateOfDomain(domain_ids, domain_state, "B")) = 1
    /\ StateOfUrl(domain_ids, url_ids, urls, <<"A", 1>>) = Some(NewUrlState)
    /\ StateOfDomain(domain_ids, domain_state, "A") = Some(NewDomainState(DomainPending))

\* the responses of a call that report a crawl result (Success or Failed) and
\* are not followed, in the call, by another result for the same URL
FinalResults(rs) ==
    {rs[i] : i \in {i \in 1..Len(rs) :
                      /\ rs[i].kind # "Redirected"
                      /\ \A j \in (i + 1)..Len(rs) :
                            rs[j].kind = "Redirected" \/ rs[j].url # rs[i].url}}

\* C11: update_url_status leaves the URL of a Success response Done and the
\* URL of a Failed response Failed with the response's status code, at the
\* weight the URL had before (0 for a URL without state); the URL's domain
\* has a DomainState afterwards, the one it had before or else Pending with
\* weight 0.
C11_StatusFromResponse ==
    [][last'.op = "update_url_status" =>
          \A r \in FinalResults(AllUrlResponses(last'.arg)) :
              /\ StateOfUrl(domain_ids', url_ids', urls', r.url) =
                    Some([weight |-> WeightOrZero(StateOfUrl(domain_ids, url_ids, urls, r.url)),
                          status |-> IF r.kind = "Success" THEN UrlDone
                                     ELSE UrlFailed(r.status_code)])
              /\ StateOfDomain(domain_ids', domain_state', DomainOf(r.url)) =
                    IF StateOfDomain(domain_ids, domain_state, DomainOf(r.url)) = None
                    THEN Some(NewDomainState(DomainPending))
                    ELSE StateOfDomain(domain_ids, domain_state, DomainOf(r.url))]_vars

\* C11 witness: a URL that had weight 1 was reported Failed with code 404 and
\* kept its weight; another call created a Done URL and its domain
C11_Witness ==
    /\ last.op = "update_url_status"
    /\ last.arg[1].url_responses = <<Failed(<<"A", 1>>, Some(404))>>
    /\ StateOfUrl(domain_ids, url_ids, urls, <<"A", 1>>) =
          Some([weight |-> 1, status |-> UrlFailed(Some(404))])
    /\ StateOfUrl(domain_ids, url_ids, urls, <<"B", 1>>) =
          Some([weight |-> 0, status |-> UrlDone])
    /\ StateOfDomain(domain_ids, domain_state, "B") = Some(NewDomainState(DomainPending))

\* the Redirected responses of a call that are not followed, in the call, by
\* another Redirected response for the same URL
FinalRedirects(rs) ==
    {rs[i] : i \in {i \in 1..Len(rs) :
                      /\ rs[i].kind = "Redirected"
                      /\ \A j \in (i + 1)..Len(rs) :
                            rs[j].kind # "Redirected" \/ rs[j].url # rs[i].url}}

\* C12: after update_url_status with a Redirected{url: X, new_url: Y}
\* response, redirects.get(X) is Some(Y), and X has the UrlState it had
\* before the call, or still none (unless the same call also reports a
\* crawl result for X).
C12_RedirectRecorded ==
    [][last'.op = "update_url_status" =>
          \A r \in FinalRedirects(AllUrlResponses(last'.arg)) :
              /\ RedirectGet(redirects', r.url) = Some(r.new_url)
              /\ (\A q \in FinalResults(AllUrlResponses(last'.arg)) : q.url # r.url)
                    => StateOfUrl(domain_ids', url_ids', urls', r.url) =
                          StateOfUrl(domain_ids, url_ids, urls, r.url)]_vars

\* C12 witness: A1, being crawled, was reported as redirected to B1; it is
\* still Crawling and B1 has no UrlState
C12_Witness ==
    /\ last.op = "update_url_status"
    /\ last.arg[1].url_responses = <<Redirected(<<"A", 1>>, <<"B", 1>>)>>
    /\ RedirectGet(redirects, <<"A", 1>>) = Some(<<"B", 1>>)
    /\ StateOfUrl(domain_ids, url_ids, urls, <<"A", 1>>) =
          Some([weight |-> 0, status |-> UrlCrawling])
    /\ StateOfUrl(domain_ids, url_ids, urls, <<"B", 1>>) = None

\* C13: insert_seed_urls of a URL that already has a UrlState leaves that
\* URL's weight and status, and its domain's DomainState, as they were.
C13_SeedIdempotent ==
    [][last'.op = "insert_seed_urls" =>
          \A u \in Range(last'.arg) :
              StateOfUrl(domain_ids, url_ids, urls, u) # None =>
                  /\ StateOfUrl(domain_ids', url_ids', urls', u) =
                        StateOfUrl(domain_ids, url_ids, urls, u)
                  /\ StateOfDomain(domain_ids', domain_state', DomainOf(u)) =
                        StateOfDomain(domain_ids, domain_state, DomainOf(u))]_vars

\* C14: the status of a URL changes only from Pending to Crawling in
\* prepare_jobs, and from Crawling to Done or to Failed in update_url_status.
C14_StatusEdges ==
    [][\A d \in DOMAIN urls : \A u \in DOMAIN urls[d] :
          LET old == urls[d][u].status
              new == urls'[d][u].status
          IN  old # new =>
                  \/ /\ old = UrlPending /\ new = UrlCrawling
                     /\ last'.op = "prepare_jobs"
                  \/ /\ old = UrlCrawling /\ new = UrlDone
                     /\ last'.op = "update_url_status"
                  \/ /\ old = UrlCrawling /\ new[1] = "Failed"
                     /\ last'.op = "update_url_status"]_vars

\* C15: a domain that is CrawlInProgress is still CrawlInProgress after every
\* operation other than set_domain_status.
C15_InProgressStays ==
    [][last'.op # "set_domain_status" =>
          \A d \in DOMAIN domain_state :
              domain_state[d].status = CrawlInProgress =>
                  /\ d \in DOMAIN domain_state'
                  /\ domain_state'[d].status = CrawlInProgress]_vars

\* C15 witness: a domain handed out by sample_domains was seeded again and is
\* still CrawlInProgress
C15_Witness ==
    /\ last.op = "insert_seed_urls"
    /\ handed # {}
    /\ \E d \in handed :
          /\ domain_state[d].status = CrawlInProgress
          /\ \E u \in Range(last.arg) : StoredId(domain_ids, DomainOf(u)) = d

\* C16: every DomainId under which urls stores at least one UrlState has an
\* entry in domain_state.
C16_UrlsHaveDomainState ==
    \A d \in DOMAIN urls : DOMAIN urls[d] # {} => d \in DOMAIN domain_state

\* C16 witness: the first operation was an update_url_status, which stored a
\* UrlState for a URL of a domain not seen before
C16_Witness ==
    /\ last.op = "update_url_status"
    /\ nops = 1
    /\ \E d \in DOMAIN urls : DOMAIN urls[d] # {} /\ d \in DOMAIN domain_state

\* the target of the latest put for `from` among ps, None when there is none
LastPut(ps, from) ==
    LET at == {i \in 1..Len(ps) : ps[i][1] = from}
    IN  IF at = {} THEN None
        ELSE Some(ps[CHOOSE i \in at : \A j \in at : j <= i][2])

\* C19: get(from) is None when put(from, _) was never called and otherwise the
\* target of the latest put(from, to), whatever was put for other URLs and
\* whether or not the target itself has a redirect.
C19_GetLatestPut ==
    last.op = "get" => last.ret = LastPut(puts, last.arg)

\* C19 witness: after put(A1, B1), put(A1, A2) and put(A2, B1), get(A1) is A2
C19_Witness ==
    /\ last.op = "get"
    /\ last.arg = <<"A", 1>>
    /\ puts = << <<<<"A", 1>>, <<"B", 1>>>>, <<<<"A", 1>>, <<"A", 2>>>>,
                 <<<<"A", 2>>, <<"B", 1>>>> >>
    /\ last.ret = Some(<<"A", 2>>)

\* C20: set_domain_status(domain, status) leaves the domain with the given
\* status and the weight it had (0 for a domain without DomainState), and
\* changes no other DomainState and no UrlState.
C20_SetStatusFrame ==
    [][last'.op = "set_domain_status" =>
          LET domain == last'.arg[1]
              status == last'.arg[2]
              id == StoredId(domain_ids', domain)
          IN  /\ StateOfDomain(domain_ids', domain_state', domain) =
                    Some([weight |-> WeightOrZero(StateOfDomain(domain_ids, domain_state, domain)),
                          status |-> status])
              /\ DOMAIN domain_state' = DOMAIN domain_state \cup {id}
              /\ \A d \in DOMAIN domain_state' \ {id} :
                    domain_state'[d] = domain_state[d]
              /\ urls' = urls]_vars

\* C20 witness: a Pending domain of weight 1 was set CrawlInProgress and kept
\* its weight, next to another domain that stayed Pending
C20_Witness ==
    /\ last.op = "set_domain_status"
    /\ last.arg[2] = CrawlInProgress
    /\ StateOfDomain(domain_ids, domain_state, last.arg[1]) =
          Some([weight |-> 1, status |-> CrawlInProgress])
    /\ \E d \in DOMAIN domain_state : domain_state[d].status = DomainPending

\* the URLs a Job held and that have only been reported Redirected since
RedirectedOnly == {u \in DOMAIN track : track[u] = "redirected"}

\* C25 as stated: a URL that was placed in a job and has only been reported
\* Redirected since is still offered to the sampler, so a prepare_jobs call on
\* its domain that asks for at least as many URLs as the domain has places it
\* in the job again.
C25_RedirectedResampled ==
    [][(last'.op = "prepare_jobs" /\ ~last'.panic) =>
          \A i \in 1..Len(last'.ret) : \A u \in RedirectedOnly :
              (/\ DomainOf(u) = last'.ret[i].domain
               /\ last'.arg[2] >= Cardinality(DOMAIN UrlStatesOf(urls, last'.arg[1][i])))
                  => u \in Range(last'.ret[i].urls)]_vars

\* C25 amended: a URL that was placed in a job and has only been reported
\* Redirected since is Crawling, and no prepare_jobs call places it in a job.
C25_RedirectedStaysCrawling ==
    /\ [](\A u \in RedirectedOnly :
             StateOfUrl(domain_ids, url_ids, urls, u) # None
                /\ Unwrap(StateOfUrl(domain_ids, url_ids, urls, u)).status = UrlCrawling)
    /\ [][(last'.op = "prepare_jobs" /\ ~last'.panic) =>
             RedirectedOnly \cap JobUrls(last'.ret) = {}]_vars

\* C25 witness: A1 was seeded, placed in a job and reported redirected; the
\* next prepare_jobs call on its domain returned a job without URLs
C25_Witness ==
    /\ last.op = "prepare_jobs"
    /\ ~last.panic
    /\ nops = 4
    /\ track = (<<"A", 1>> :> "redirected")
    /\ Len(last.ret) = 1
    /\ last.ret[1].domain = "A"
    /\ last.ret[1].urls = <<>>
    /\ DOMAIN UrlStatesOf(urls, last.arg[1][1]) # {}

\* C26: a URL that a returned Job held is not placed in a Job again, by a
\* later prepare_jobs call or by a later Job of the same call.
C26_PlacedOnce ==
    [][(last'.op = "prepare_jobs" /\ ~last'.panic) =>
          /\ DOMAIN track \cap JobUrls(last'.ret) = {}
          /\ \A i \in 1..Len(last'.ret) : \A j \in 1..Len(last'.ret) :
                i # j => Range(last'.ret[i].urls) \cap Range(last'.ret[j].urls) = {}]_vars

\* the DomainIds for which prepare_jobs has nothing to build a Job from: no
\* DomainState, or no value in the domain id table
Jobless(ids, states) ==
    {d \in DomainIds : d \notin DOMAIN states \/ IdTableValue(ids, d).ret = None}

\* C27: a prepare_jobs call given a DomainId without DomainState, or without
\* value in the domain id table, panics; of the calls that return, none was
\* given such an id.
C27_MissingDomainPanics ==
    [][last'.op = "prepare_jobs" =>
          (Range(last'.arg[1]) \cap Jobless(domain_ids, domain_state) # {}
              => last'.panic)]_vars

\* C27 witness: prepare_jobs was given the id of a seeded domain and then an
\* id no domain has; it built the first job and panicked at the second id
C27_Witness ==
    /\ last.op = "prepare_jobs"
    /\ last.panic
    /\ Len(last.arg[1]) = 2
    /\ Len(last.ret) = 1
    /\ last.arg[1][1] \in DOMAIN domain_state
    /\ last.arg[1][2] \notin DOMAIN domain_state

\* C28: every DomainId with a DomainState, so every id sample_domains
\* returns, has a value in the domain id table; every UrlId stored in urls
\* has a value in the URL id table; and prepare_jobs given only ids that
\* sample_domains can return does not panic.
C28_SampledIdsResolve ==
    /\ [](~last.panic =>
            /\ handed \subseteq DOMAIN domain_state
            /\ \A d \in DOMAIN domain_state : IdTableValue(domain_ids, d).ret # None
            /\ \A d \in DOMAIN urls : \A u \in DOMAIN urls[d] :
                  IdTableValue(url_ids, u).ret # None)
    /\ [][(last'.op = "prepare_jobs" /\ Range(last'.arg[1]) \subseteq DOMAIN domain_state)
             => ~last'.panic]_vars

\* C28 witness: prepare_jobs built a job with a URL for an id that
\* sample_domains had returned, for a domain and a URL registered by insert_urls
C28_Witness ==
    /\ last.op = "prepare_jobs"
    /\ ~last.panic
    /\ nops = 3
    /\ last.arg[1] # <<>>
    /\ Range(last.arg[1]) \subseteq handed
    /\ \E i \in 1..Len(last.ret) : last.ret[i].urls # <<>>

\* C30: insert_urls leaves every URL and domain that had state with the
\* status it had, and creates the others it discovers Pending, a URL with
\* weight 0 plus its cross-domain occurrences in the call.
C30_InsertKeepsStatus ==
    [][last'.op = "insert_urls" =>
          /\ \A u \in Urls :
                LET old == StateOfUrl(domain_ids, url_ids, urls, u)
                    new == StateOfUrl(domain_ids', url_ids', urls', u)
                IN  IF old # None
                    THEN new # None /\ Unwrap(new).status = Unwrap(old).status
                    ELSE IF u \in DiscoveredUrls(last'.arg)
                    THEN new = Some([weight |-> Cardinality(CrossDomainOccurrences(last'.arg, u)),
                                     status |-> UrlPending])
                    ELSE new = None
          /\ \A d \in Domains :
                LET old == StateOfDomain(domain_ids, domain_state, d)
                    new == StateOfDomain(domain_ids', domain_state', d)
                IN  IF old # None
                    THEN new # None /\ Unwrap(new).status = Unwrap(old).status
                    ELSE IF d \in {DomainOf(u) : u \in DiscoveredUrls(last'.arg)}
                    THEN new # None /\ Unwrap(new).status = DomainPending
                    ELSE new = None]_vars

\* C30 witness: domain B reported A1, which is being crawled, and its own new
\* B1: A1 is still Crawling, B1 and domain B are Pending with weight 0
C30_Witness ==
    /\ last.op = "insert_urls"
    /\ last.arg[1].domain = "B"
    /\ StateOfUrl(domain_ids, url_ids, urls, <<"A", 1>>) =
          Some([weight |-> 1, status |-> UrlCrawling])
    /\ StateOfUrl(domain_ids, url_ids, urls, <<"B", 1>>) = Some(NewUrlState)
    /\ StateOfDomain(domain_ids, domain_state, "B") = Some(NewDomainState(DomainPending))

----------------------------------------------------------------------------
(* SpecFail: one IdTable whose store writes may fail: id and bulk_ids      *)
(* return the error of the first failing write with `?`, keeping what they *)
(* changed before it                                                        *)

\* a write fails only while next_id is below this
MaxFailId == 1

\* longest batch passed to bulk_ids in SpecFail
MaxFailBatch == 2

\* the two writes of id and of bulk_ids, in the order the code issues them
FirstWrite == 1
SecondWrite == 2

\* IdTable::id whose write number failing returns Err: next_id is already
\* incremented, t2id.put_opt is the first write, id2t.put_opt the second, and
\* the caches are updated after both only
IdTableIdErr(t, item, failing) ==
    LET id == t.next_id
        item_bytes == serialize(item)
        id_bytes == serialize(id)
    IN  [t EXCEPT !.next_id = id + 1,
                  !.t2id = IF failing = SecondWrite
                           THEN MapPut(@, item_bytes, id_bytes) ELSE @]

\* IdTable::bulk_ids whose write number failing returns Err: the loop has
\* advanced next_id and filled t2id_cache, id2t.write_opt is the first write
\* and t2id.write_opt the second
IdTableBulkIdsErr(t, items, failing) ==
    LET s == BulkIdsLoop([t |-> t, ids |-> <<>>, batch_id2t |-> <<>>,
                          batch_t2id |-> <<>>, batch_assignments |-> EmptyMap],
                         items)
    IN  [s.t EXCEPT !.id2t = IF failing = SecondWrite
                             THEN WriteBatch(@, s.batch_id2t) ELSE @]

\* id reaches its writes when the item is neither cached nor stored
CallIdErr(item, failing) ==
    /\ tbl.next_id < MaxFailId
    /\ LruGet(tbl.t2id_cache, item).val = None
    /\ MapGet(tbl.t2id, serialize(item)) = None
    /\ tbl' = IdTableIdErr(tbl, item, failing)
    /\ given' = given
    /\ call' = [op |-> "id_err", arg |-> item, ret |-> <<>>]

CallBulkIdsErr(items, failing) ==
    /\ tbl.next_id < MaxFailId
    /\ tbl' = IdTableBulkIdsErr(tbl, items, failing)
    /\ given' = given
    /\ call' = [op |-> "bulk_ids_err", arg |-> items, ret |-> <<>>]

FailNext ==
    \/ CallOpen /\ UNCHANGED <<wsvars, dbvars>>
    \/ \E item \in Values : CallId(item) /\ UNCHANGED <<wsvars, dbvars>>
    \/ \E items \in SeqUpTo(Values, MaxFailBatch) : CallBulkIds(items) /\ UNCHANGED <<wsvars, dbvars>>
    \/ \E id \in AskedIds : CallValue(id) /\ UNCHANGED <<wsvars, dbvars>>
    \/ \E item \in Values : \E failing \in {FirstWrite, SecondWrite} :
          CallIdErr(item, failing) /\ UNCHANGED <<wsvars, dbvars>>
    \/ \E items \in SeqUpTo(Values, MaxFailBatch) : \E failing \in {FirstWrite, SecondWrite} :
          CallBulkIdsErr(items, failing) /\ UNCHANGED <<wsvars, dbvars>>

SpecFail == IdInit /\ [][FailNext]_vars

\* C29: with writes that may fail inside id and bulk_ids, the successful
\* calls still give no value two different ids and no id to two values, and
\* value(i) never returns a value that was given an id other than i.
C29_BijectionAfterFailure ==
    /\ [](\A p \in given : \A q \in given : (p[1] = q[1]) <=> (p[2] = q[2]))
    /\ [][(call'.op = "value" /\ call'.ret # None) =>
             \A p \in given : p[1] = Unwrap(call'.ret) => p[2] = call'.arg]_vars

\* C31: every UrlState is stored under the DomainId of its URL's domain (so a
\* UrlId appears under one DomainId at most), and every Job prepare_jobs
\* returns has fetch_sitemap = false, the domain that is the value of the
\* DomainId it was built for, and only URLs of that domain.
C31_JobsOfOwnDomain ==
    /\ [](\A d \in DOMAIN urls : \A u \in DOMAIN urls[d] :
            LET url == IdTableValue(url_ids, u).ret
            IN  /\ url # None
                /\ IdTableValue(domain_ids, d).ret = Some(DomainOf(Unwrap(url)))
                /\ \A e \in DOMAIN urls : u \in DOMAIN urls[e] => e = d)
    /\ [][(last'.op = "prepare_jobs" /\ ~last'.panic) =>
             /\ Len(last'.ret) = Len(last'.arg[1])
             /\ \A i \in 1..Len(last'.ret) :
                   LET job == last'.ret[i]
                   IN  /\ job.fetch_sitemap = FALSE
                       /\ Some(job.domain) = IdTableValue(domain_ids', last'.arg[1][i]).ret
                       /\ \A j \in 1..Len(job.urls) : DomainOf(job.urls[j]) = job.domain]_vars

\* C31 witness: one insert_urls call discovered URLs of two domains and
\* prepare_jobs returned a job with a URL for each of the two
C31_Witness ==
    /\ last.op = "prepare_jobs"
    /\ ~last.panic
    /\ Len(last.ret) = 2
    /\ last.ret[1].domain # last.ret[2].domain
    /\ last.ret[1].urls # <<>>
    /\ last.ret[2].urls # <<>>
    /\ nops = 2

\* the UrlIds of the Pending URLs stored under a DomainId
PendingUrlIds(d) == {u \in DOMAIN urls[d] : urls[d][u].status = UrlPending}

\* C32: in every state, each Pending domain, whatever its weight and the
\* weights of the other Pending domains, is returned by some outcome of
\* sample_domains(count) for every count >= 1, and each Pending URL of a domain
\* with a DomainState is in the job of some outcome of
\* prepare_jobs([domain], urls_per_job) for every urls_per_job >= 1.
C32_NoStarvation ==
    /\ \A d \in PendingDomains(domain_state) : \A count \in 1..MaxJobs :
          \E o \in sample_domains(Db, count) : d \in Range(o.ret)
    /\ \A d \in DOMAIN domain_state \cap DOMAIN urls :
          \A u \in PendingUrlIds(d) : \A urls_per_job \in 1..MaxJobs :
             \E o \in prepare_jobs(Db, <<d>>, urls_per_job) :
                /\ ~o.panic
                /\ o.db.urls[d][u].status = UrlCrawling
                /\ Unwrap(IdTableValue(url_ids, u).ret) \in Range(o.ret[1].urls)

\* C32 witness: sample_domains(1) returned a domain of weight 0 and left a
\* domain of larger weight Pending, and the domain holds a Pending URL of
\* weight 0 next to one of larger weight
C32_Witness ==
    /\ last.op = "sample_domains"
    /\ last.arg = 1
    /\ Len(last.ret) = 1
    /\ domain_state[last.ret[1]].weight = 0
    /\ \E e \in PendingDomains(domain_state) :
          /\ domain_state[e].weight > 0
          /\ e \in DOMAIN urls
          /\ \E u \in PendingUrlIds(e) : \E v \in PendingUrlIds(e) :
                urls[e][u].weight = 0 /\ urls[e][v].weight > 0

\* the responses of the update_url_status call that last' records, when all
\* of them are Redirected; none otherwise
RedirectsOfCall(l) ==
    IF l.op = "update_url_status"
       /\ \A i \in 1..Len(AllUrlResponses(l.arg)) :
             AllUrlResponses(l.arg)[i].kind = "Redirected"
    THEN Range(AllUrlResponses(l.arg))
    ELSE {}

\* what C33 and its amendment share: the target has an id in the URL id
\* table afterwards, neither the target nor the redirected URL gains or
\* changes a UrlState, and prepare_jobs returns only URLs that had a UrlState
RedirectUrlFrame ==
    /\ \A r \in RedirectsOfCall(last') :
          /\ HasId(url_ids', r.new_url)
          /\ IdTableValue(url_ids', StoredId(url_ids', r.new_url)).ret = Some(r.new_url)
          /\ StateOfUrl(domain_ids', url_ids', urls', r.new_url) =
                StateOfUrl(domain_ids, url_ids, urls, r.new_url)
          /\ StateOfUrl(domain_ids', url_ids', urls', r.url) =
                StateOfUrl(domain_ids, url_ids, urls, r.url)
    /\ (last'.op = "prepare_jobs" /\ ~last'.panic) =>
          \A u \in JobUrls(last'.ret) : StateOfUrl(domain_ids, url_ids, urls, u) # None

\* C33 as stated: update_url_status with Redirected{url: X, new_url: Y} gives
\* Y an id in the URL id table, creates no UrlState for Y and none for X, and
\* creates no DomainState for Y's domain; prepare_jobs selects no URL without
\* UrlState.
C33_RedirectFrame ==
    [][/\ RedirectUrlFrame
       /\ \A r \in RedirectsOfCall(last') :
             StateOfDomain(domain_ids', domain_state', DomainOf(r.new_url)) =
                StateOfDomain(domain_ids, domain_state, DomainOf(r.new_url))]_vars

\* C33 amended: as C33, but the DomainState of Y's domain is left as it was
\* only when Y's domain is not X's; X's domain keeps the DomainState it had
\* and gets (Pending, weight 0) when it had none.
C33_RedirectFrameOtherDomain ==
    [][/\ RedirectUrlFrame
       /\ \A r \in RedirectsOfCall(last') :
             /\ DomainOf(r.new_url) \notin {DomainOf(q.url) : q \in RedirectsOfCall(last')} =>
                   StateOfDomain(domain_ids', domain_state', DomainOf(r.new_url)) =
                      StateOfDomain(domain_ids, domain_state, DomainOf(r.new_url))
             /\ StateOfDomain(domain_ids', domain_state', DomainOf(r.url)) =
                   IF StateOfDomain(domain_ids, domain_state, DomainOf(r.url)) = None
                   THEN Some(NewDomainState(DomainPending))
                   ELSE StateOfDomain(domain_ids, domain_state, DomainOf(r.url))]_vars

\* C33 witness: the first operation reported A1 redirected to B1: B1 has an
\* id, neither URL has a UrlState, domain A has a DomainState and B none
C33_Witness ==
    /\ nops = 1
    /\ last.op = "update_url_status"
    /\ AllUrlResponses(last.arg) = <<Redirected(<<"A", 1>>, <<"B", 1>>)>>
    /\ HasId(url_ids, <<"B", 1>>)
    /\ StateOfUrl(domain_ids, url_ids, urls, <<"B", 1>>) = None
    /\ StateOfUrl(domain_ids, url_ids, urls, <<"A", 1>>) = None
    /\ StateOfDomain(domain_ids, domain_state, "A") = Some(NewDomainState(DomainPending))
    /\ StateOfDomain(domain_ids, domain_state, "B") = None

====
